---------------------------- MODULE Spec2Model ----------------------------
(***************************************************************************)
(* Model of sce_demo.py: Dataminr alerts -> flat rows -> GeoJSON -> ArcGIS  *)
(* feature layer.                                                          *)
(*                                                                         *)
(* JSON values are tagged records: None, Num(n), Str(s), Dict(d), List(l). *)
(* A Python call either returns a value or raises; both outcomes are       *)
(* records Return(v) / Raise(exc).                                         *)
(***************************************************************************)
EXTENDS Integers, Sequences, FiniteSets, TLC

VARIABLES
    entry,        \* which function of the script is being executed
    pc,           \* position inside that function
    outcome,      \* "running", "returned" or "raised" (of the entry function)
    exc,          \* the exception that left the entry function, "" if none
    retval,       \* value returned by the entry function / append_to_layer
    headers,      \* Dataminr auth header, "" until get_auth_header returned
    lists_json,   \* run: body of the get_lists answer while `lists` is
                  \* fresh (None before it arrives and once the loop runs)
    lists,        \* run: lists returned by get_lists (list rows)
    li,           \* run: index of the next list of the for loop
    alerts,       \* run: accumulated alert rows
    alert_ids,    \* run: set of alert ids already accumulated
    geojson,      \* feature collection handed to the GIS functions
    lyr,          \* the local lyr / layer: "unbound" or a layer name
    result,       \* append_to_layer: its local result
    item,         \* temporary GeoJson item of add_geojson: "unbound" or item id
    calls,        \* every outbound HTTP / SDK call issued so far, in order
    account,      \* item ids present in the GIS account
    logs,         \* logging records emitted so far, in order
    fetched,      \* run: per fetched list, the rows get_alerts returned
    fcall,        \* pure-function specifications: the call being evaluated
    fret          \* pure-function specifications: its outcome

vars == <<entry, pc, outcome, exc, retval, headers, lists_json, lists, li,
          alerts, alert_ids, geojson, lyr, result, item, calls, account, logs,
          fetched, fcall, fret>>

progvars == <<entry, pc, outcome, exc, retval, headers, lists_json, lists, li,
              alerts, alert_ids, geojson, lyr, result, item, calls, account,
              logs, fetched>>

-----------------------------------------------------------------------------
(* JSON / Python values *)

None == [K |-> "none"]
Num(n) == [K |-> "num", n |-> n]
Str(s) == [K |-> "str", s |-> s]
Dict(d) == [K |-> "dict", d |-> d]
List(l) == [K |-> "list", l |-> l]

EmptyDict == [k \in {} |-> None]

Return(v) == [st |-> "return", v |-> v]
Raise(e) == [st |-> "raise", exc |-> e]

\* the exception an outcome raised, "" when it returned
Raised(r) == IF r.st = "raise" THEN r.exc ELSE ""

\* Python truth value of a JSON value (the `if x` tests of alert_to_row)
Truthy(v) ==
    CASE v.K = "none" -> FALSE
      [] v.K = "num" -> v.n # 0
      [] v.K = "str" -> v.s # ""
      [] v.K = "list" -> Len(v.l) > 0
      [] v.K = "dict" -> DOMAIN v.d # {}

\* o[k] of Python: the value, or the exception the subscript raises
Subscript(o, k) ==
    CASE o.K = "dict" ->
           IF k.K = "str" /\ k.s \in DOMAIN o.d
           THEN Return(o.d[k.s]) ELSE Raise("KeyError")
      [] o.K = "list" ->
           IF k.K # "num" THEN Raise("TypeError")
           ELSE IF k.n >= 0 /\ k.n < Len(o.l) THEN Return(o.l[k.n + 1])
           ELSE IF k.n < 0 /\ -k.n <= Len(o.l)
                THEN Return(o.l[Len(o.l) + k.n + 1])
           ELSE Raise("IndexError")
      [] o.K = "str" ->
           IF k.K # "num" THEN Raise("TypeError")
           ELSE IF k.n >= 0 /\ k.n < Len(o.s)
                THEN Return(Str(SubSeq(o.s, k.n + 1, k.n + 1)))
           ELSE IF k.n < 0 /\ -k.n <= Len(o.s)
                THEN Return(Str(SubSeq(o.s, Len(o.s) + k.n + 1,
                                       Len(o.s) + k.n + 1)))
           ELSE Raise("IndexError")
      [] OTHER -> Raise("TypeError")

-----------------------------------------------------------------------------
(* Utility functions *)

\* mutant of extract_loop: required raises even when a default is given
RECURSIVE extract_loop_required_raises(_, _, _, _, _)
extract_loop_required_raises(o, keys, i, required, default) ==
    IF i > Len(keys) THEN Return(o)
    ELSE LET r == Subscript(o, keys[i]) IN
         IF r.st = "return"
         THEN extract_loop_required_raises(r.v, keys, i + 1, required, default)
         ELSE IF r.exc \in {"KeyError", "IndexError"}
              THEN IF required THEN Raise("KeyError") ELSE Return(default)
              ELSE Raise(r.exc)

RECURSIVE extract_loop(_, _, _, _, _)
extract_loop(o, keys, i, required, default) ==
    IF i > Len(keys) THEN Return(o)
    ELSE LET r == Subscript(o, keys[i]) IN
         IF r.st = "return"
         THEN extract_loop(r.v, keys, i + 1, required, default)
         ELSE IF r.exc \in {"KeyError", "IndexError"}
              THEN IF required /\ default = None
                   THEN Raise("KeyError")
                   ELSE Return(default)
              ELSE Raise(r.exc)

\* extract(obj, keys, required=..., default=...)
extract(obj, keys, required, default) ==
    extract_loop(obj, keys, 1, required, default)

\* str.split('.')
RECURSIVE split_from(_, _, _)
split_from(s, i, start) ==
    IF i > Len(s) THEN <<Str(SubSeq(s, start, Len(s)))>>
    ELSE IF SubSeq(s, i, i) = "."
         THEN <<Str(SubSeq(s, start, i - 1))>> \o split_from(s, i + 1, i + 1)
         ELSE split_from(s, i + 1, start)

\* d_extract(obj, keys_delimited, required=..., default=...)
d_extract(obj, keys_delimited, required, default) ==
    extract(obj, split_from(keys_delimited, 1, 1), required, default)

\* mutant of row_to_geojson: coordinates in [lon, lat] order
row_to_geojson_lonlat(row, lon_field, lat_field) ==
    [type |-> "Feature",
     geometry |-> [type |-> "Point",
                   coordinates |-> <<row[lon_field], row[lat_field]>>],
     properties |-> row]

\* row_to_geojson(row, lon_field, lat_field)
row_to_geojson(row, lon_field, lat_field) ==
    [type |-> "Feature",
     geometry |-> [type |-> "Point",
                   coordinates |-> <<row[lat_field], row[lon_field]>>],
     properties |-> row]

\* rows_to_geojson(rows, lon_field, lat_field)
rows_to_geojson(rows, lon_field, lat_field) ==
    [type |-> "FeatureCollection",
     features |-> [i \in 1..Len(rows) |->
                     row_to_geojson(rows[i], lon_field, lat_field)]]

\* two-digit, zero padded (%m %d %H %M %S)
Pad2(n) == IF n < 10 THEN "0" \o ToString(n) ELSE ToString(n)

\* civil date of a day number counted from 1970-01-01 (proleptic Gregorian)
CivilFromDays(days) ==
    LET z == days + 719468
        era == z \div 146097
        doe == z - era * 146097
        yoe == (doe - doe \div 1460 + doe \div 36524 - doe \div 146096) \div 365
        doy == doe - (365 * yoe + yoe \div 4 - yoe \div 100)
        mp == (5 * doy + 2) \div 153
        d == doy - (153 * mp + 2) \div 5 + 1
        m == IF mp < 10 THEN mp + 3 ELSE mp - 9
        y == yoe + era * 400 + (IF m <= 2 THEN 1 ELSE 0)
    IN [y |-> y, m |-> m, d |-> d]

\* date_to_ags(date): date given as whole seconds since the epoch, rendered
\* in UTC as '%m/%d/%Y %H:%M:%S'
date_to_ags(secs) ==
    LET c == CivilFromDays(secs \div 86400)
        sod == secs % 86400
    IN Pad2(c.m) \o "/" \o Pad2(c.d) \o "/" \o ToString(c.y) \o " " \o
       Pad2(sod \div 3600) \o ":" \o Pad2((sod % 3600) \div 60) \o ":" \o
       Pad2(sod % 60)

\* timestamp_to_ags(timestamp): ms timestamp -> seconds -> date_to_ags
timestamp_to_ags(timestamp) == date_to_ags(timestamp \div 1000)


-----------------------------------------------------------------------------
(* Dataminr API response parsing functions *)

\* ','.join(strs) for a sequence of TLA+ strings
RECURSIVE join(_, _)
join(sep, strs) ==
    IF Len(strs) = 0 THEN ""
    ELSE IF Len(strs) = 1 THEN strs[1]
    ELSE strs[1] \o sep \o join(sep, Tail(strs))

\* the elements a Python for loop / str.join sees when iterating v;
\* Raise("TypeError") for a value that is not iterable.  The key order of a
\* JSON object is not represented: a dict is iterated in one fixed order.
RECURSIVE set_to_seq(_)
set_to_seq(S) ==
    IF S = {} THEN <<>>
    ELSE LET x == CHOOSE y \in S : TRUE IN <<x>> \o set_to_seq(S \ {x})

iterate(v) ==
    CASE v.K = "list" -> Return(v.l)
      [] v.K = "str" -> Return([i \in 1..Len(v.s) |-> Str(SubSeq(v.s, i, i))])
      [] v.K = "dict" ->
           LET ks == set_to_seq(DOMAIN v.d)
           IN Return([i \in 1..Len(ks) |-> Str(ks[i])])
      [] OTHER -> Raise("TypeError")

\* ','.join(items): items is a sequence of values; TypeError unless all str
join_values(items) ==
    IF \E i \in 1..Len(items) : items[i].K # "str" THEN Raise("TypeError")
    ELSE Return(Str(join(",", [i \in 1..Len(items) |-> items[i].s])))

\* [t[sub] for t in items]: the first subscript that raises ends it
subscript_each(items, sub) ==
    LET rs == [i \in 1..Len(items) |-> Subscript(items[i], Str(sub))]
        bad == {i \in 1..Len(items) : rs[i].st = "raise"}
    IN IF bad # {}
       THEN rs[CHOOSE i \in bad : \A j \in bad : i <= j]
       ELSE Return([i \in 1..Len(items) |-> rs[i].v])

\* the 'simple JSON parsed values' of alert_to_row, in source order
SimpleFields ==
    << [key |-> "alert_id", dk |-> "alertId", required |-> TRUE],
       [key |-> "place", dk |-> "eventLocation.name", required |-> FALSE],
       [key |-> "alert_type", dk |-> "alertType.name", required |-> FALSE],
       [key |-> "alert_type_color", dk |-> "alertType.color",
        required |-> FALSE],
       [key |-> "caption", dk |-> "caption", required |-> FALSE],
       [key |-> "publisher_category", dk |-> "publisherCategory.name",
        required |-> FALSE],
       [key |-> "publisher_category_color", dk |-> "publisherCategory.color",
        required |-> FALSE],
       [key |-> "related_terms_query_url", dk |-> "relatedTermsQueryURL",
        required |-> FALSE],
       [key |-> "expand_alert_url", dk |-> "expandAlertURL",
        required |-> FALSE],
       [key |-> "post_text", dk |-> "post.text", required |-> FALSE],
       [key |-> "post_text_transl", dk |-> "post.translatedText",
        required |-> FALSE] >>

\* the two coordinate values, read with extract and an explicit key list
CoordFields ==
    << [key |-> "lon",
        keys |-> <<Str("eventLocation"), Str("coordinates"), Num(0)>>],
       [key |-> "lat",
        keys |-> <<Str("eventLocation"), Str("coordinates"), Num(1)>>] >>

\* r if r raised, else F applied to the value r returned: one statement
\* after another, ended by the first exception
Bind(r, F(_)) == IF r.st = "raise" THEN r ELSE F(r.v)

\* the value of the i-th entry of the dict literal of alert_to_row
simple_field(obj, i) ==
    IF i <= Len(SimpleFields)
    THEN d_extract(obj, SimpleFields[i].dk, SimpleFields[i].required, None)
    ELSE extract(obj, CoordFields[i - Len(SimpleFields)].keys, FALSE, None)

\* the key of the i-th entry
simple_key(i) ==
    IF i <= Len(SimpleFields) THEN SimpleFields[i].key
    ELSE CoordFields[i - Len(SimpleFields)].key

\* the dict literal `props = {...}` of alert_to_row: the entries are
\* evaluated in source order, the first exception ends the evaluation
RECURSIVE simple_props_from(_, _, _)
simple_props_from(obj, i, props) ==
    IF i > Len(SimpleFields) + Len(CoordFields) THEN Return(props)
    ELSE Bind(simple_field(obj, i), LAMBDA v :
              simple_props_from(obj, i + 1, (simple_key(i) :> v) @@ props))

simple_props(obj) == simple_props_from(obj, 1, <<>>)

\* mutant of set_time: the timestamp is copied, not formatted
set_time_copy(props, key, t) ==
    IF ~Truthy(t) THEN Return(props)
    ELSE IF t.K # "num" THEN Raise("TypeError")
    ELSE IF t.n > 0 THEN Return((key :> t) @@ props)
    ELSE Return(props)

\* `if t and t > 0: props[key] = timestamp_to_ags(t)`
set_time(props, key, t) ==
    IF ~Truthy(t) THEN Return(props)
    ELSE IF t.K # "num" THEN Raise("TypeError")
    ELSE IF t.n > 0 THEN Return((key :> Str(timestamp_to_ags(t.n))) @@ props)
    ELSE Return(props)

\* `t = f_de(dk); if t and t > 0: props[key] = timestamp_to_ags(t)`
add_time(props, obj, dk, key) ==
    Bind(d_extract(obj, dk, FALSE, None), LAMBDA t : set_time(props, key, t))

\* `props[key] = ','.join(c)` (sub = "") or
\* `props[key] = ','.join([t[sub] for t in c])`
set_joined(props, key, sub, c) ==
    Bind(iterate(c), LAMBDA items :
    Bind(IF sub = "" THEN Return(items) ELSE subscript_each(items, sub),
         LAMBDA parts :
    Bind(join_values(parts), LAMBDA j : Return((key :> j) @@ props))))

\* `c = f_de(dk); if c: props[key] = ...`
add_joined(props, obj, dk, key, sub) ==
    Bind(d_extract(obj, dk, FALSE, None), LAMBDA c :
         IF Truthy(c) THEN set_joined(props, key, sub, c) ELSE Return(props))

\* alert_to_row(obj)
alert_to_row(obj) ==
    Bind(simple_props(obj), LAMBDA p0 :
    Bind(add_time(p0, obj, "eventTime", "event_time"), LAMBDA p1 :
    Bind(add_time(p1, obj, "post.timestamp", "post_time"), LAMBDA p2 :
    Bind(add_joined(p2, obj, "source.channels", "source", ""), LAMBDA p3 :
    Bind(add_joined(p3, obj, "relatedTerms", "related_terms", "text"),
         LAMBDA p4 :
    add_joined(p4, obj, "categories", "categories", "name"))))))

\* list_to_row(obj)
list_to_row(obj) ==
    Bind(d_extract(obj, "id", TRUE, None), LAMBDA id :
    Bind(d_extract(obj, "name", FALSE, None), LAMBDA name :
    Bind(d_extract(obj, "properties.watchlistColor", FALSE, None),
         LAMBDA color :
    Return([list_id |-> id, list_name |-> name, list_color |-> color]))))

\* [f(x) for x in xs] where f may raise: rows, or the first exception
RECURSIVE map_rows_from(_, _, _)
map_rows_from(rs, i, rows) ==
    IF i > Len(rs) THEN Return(rows)
    ELSE Bind(rs[i], LAMBDA v : map_rows_from(rs, i + 1, Append(rows, v)))

map_rows(rs) == map_rows_from(rs, 1, <<>>)


-----------------------------------------------------------------------------
(* Dataminr API wrappers: what each does with the JSON body it received *)

\* str(x) / format(x) of a scalar
py_str(v) ==
    CASE v.K = "num" -> ToString(v.n)
      [] v.K = "str" -> v.s
      [] OTHER -> "None"

\* get_auth_header: {'Authorization': 'dmauth ' + j['dmaToken']}
get_auth_header(j) ==
    Bind(Subscript(j, Str("dmaToken")), LAMBDA t : Return("dmauth " \o py_str(t)))

\* a + b on two values: list concatenation, TypeError for anything else
concat(a, b) ==
    IF a.K = "list" /\ b.K = "list" THEN Return(List(a.l \o b.l))
    ELSE Raise("TypeError")

\* get_lists: topics + companies + custom, each list flattened by list_to_row
get_lists(j) ==
    Bind(d_extract(j, "watchlists.TOPIC", FALSE, List(<<>>)), LAMBDA topics :
    Bind(d_extract(j, "watchlists.COMPANY", FALSE, List(<<>>)),
         LAMBDA companies :
    Bind(d_extract(j, "watchlists.CUSTOM", FALSE, List(<<>>)), LAMBDA custom :
    Bind(concat(topics, companies), LAMBDA tc :
    Bind(concat(tc, custom), LAMBDA ls :
    map_rows([i \in 1..Len(ls.l) |-> list_to_row(ls.l[i])]))))))

\* get_alerts: every element of the body flattened by alert_to_row
get_alerts(body) ==
    Bind(iterate(body), LAMBDA as :
         map_rows([i \in 1..Len(as) |-> alert_to_row(as[i])]))

\* fixed page size of run's get_alerts call
Pagesize == 100

\* retention window of run's delete_before_days call
RetentionDays == 30

\* mutant of dedup_loop: the membership test is missing
RECURSIVE dedup_loop_nocheck(_, _, _, _, _)
dedup_loop_nocheck(acc, ids, new_alerts, l, i) ==
    IF i > Len(new_alerts) THEN Return([alerts |-> acc, alert_ids |-> ids])
    ELSE LET a == new_alerts[i] IN
         dedup_loop_nocheck(Append(acc, l @@ a), ids \cup {a["alert_id"]},
                            new_alerts, l, i + 1)

\* the for loop over new_alerts in run: skip ids already seen, else append
\* {**a, **l} and remember the id
RECURSIVE dedup_loop(_, _, _, _, _)
dedup_loop(acc, ids, new_alerts, l, i) ==
    IF i > Len(new_alerts) THEN Return([alerts |-> acc, alert_ids |-> ids])
    ELSE LET a == new_alerts[i] IN
         IF a["alert_id"].K \in {"list", "dict"} THEN Raise("TypeError")
         ELSE IF a["alert_id"] \in ids
              THEN dedup_loop(acc, ids, new_alerts, l, i + 1)
              ELSE dedup_loop(Append(acc, l @@ a), ids \cup {a["alert_id"]},
                              new_alerts, l, i + 1)

\* delete_before: the where clause handed to delete_features
delete_where(field, secs) == field \o " < '" \o date_to_ags(secs) \o "'"

\* delete_before_days: today minus number_days, as seconds since the epoch
days_back(today, number_days) == today - number_days * 86400

-----------------------------------------------------------------------------
(* The environment: what the two vendor services may answer *)

\* most lists one get_lists answer holds, over TOPIC, COMPANY and CUSTOM
MaxLists == 2

\* most alerts the alert API returns over one run
MaxAlerts == 2

ListA == Dict([id |-> Num(1), name |-> Str("A"),
               properties |-> Dict([watchlistColor |-> Str("red")])])
ListB == Dict([id |-> Num(2), name |-> Str("B")])
ListNoId == Dict([name |-> Str("C")])
RawLists == {ListA, ListB, ListNoId}

AlertA == Dict([alertId |-> Str("a1"), caption |-> Str("first"),
                eventLocation |-> Dict([name |-> Str("P"),
                                        coordinates |-> List(<<Num(10), Num(20)>>)]),
                eventTime |-> Num(86400000)])
AlertA2 == Dict([alertId |-> Str("a1"), caption |-> Str("again")])
AlertB == Dict([alertId |-> Str("a2"),
                source |-> Dict([channels |-> List(<<Str("x"), Str("y")>>)])])
AlertNoId == Dict([caption |-> Str("anonymous")])
RawAlerts == {AlertA, AlertA2, AlertB, AlertNoId}

\* sequences over S of length at most n
SeqsUpTo(S, n) == UNION {[1..k -> S] : k \in 0..n}

\* one of the three watchlist groups: the key is absent, or it holds lists
Groups(n) == {[has |-> FALSE, l |-> <<>>]} \cup
             {[has |-> TRUE, l |-> q] : q \in SeqsUpTo(RawLists, n) \ {<<>>}}

watchlists_of(t, c, u) ==
    Dict((IF t.has THEN [TOPIC |-> List(t.l)] ELSE EmptyDict) @@
         (IF c.has THEN [COMPANY |-> List(c.l)] ELSE EmptyDict) @@
         (IF u.has THEN [CUSTOM |-> List(u.l)] ELSE EmptyDict))

\* bodies of the get_lists answer
ListBodies ==
    {Dict([watchlists |-> watchlists_of(t, c, u)]) :
        <<t, c, u>> \in {g \in Groups(MaxLists) \X Groups(MaxLists)
                                \X Groups(MaxLists) :
                           Len(g[1].l) + Len(g[2].l) + Len(g[3].l) <= MaxLists}}
    \cup {Dict(EmptyDict),
          Dict([watchlists |-> Dict([TOPIC |-> List(<<>>)])])}

\* bodies of a get_alert answer holding at most n alerts, or an error object
AlertBodies(n) ==
    {List(q) : q \in SeqsUpTo(RawAlerts, n)} \cup
    {Dict([errors |-> List(<<>>)])}

\* bodies of the token answer
TokenBodies == {Dict([dmaToken |-> Str("tok")]), Dict([error |-> Str("denied")])}

\* what a failed HTTP exchange raises (requests / r.json())
HttpErrors == {"ConnectionError", "JSONDecodeError"}

\* `today` of delete_before_days, seconds since the epoch
Todays == {45 * 86400 + 3661}

NoGeojson == [type |-> "unset", features |-> <<>>]

\* geojson arguments of the layer-creating functions
ArgGeojsons ==
    {rows_to_geojson(<<>>, "lon", "lat"),
     rows_to_geojson(<<[alert_id |-> Str("a1"), lon |-> Num(10),
                        lat |-> Num(20)]>>, "lon", "lat")}

Entries == {"run", "create_scratch_layer", "create_layer"}

TargetItemId == "cc6c9d08bc814274a9e39439c0d1a21d"

\* alerts received so far in this run
RECURSIVE received_upto(_)
received_upto(i) == IF i = 0 THEN 0 ELSE received_upto(i - 1) + fetched[i].n

Received == received_upto(Len(fetched))

-----------------------------------------------------------------------------
(* Program state after construction *)

Init ==
    /\ entry \in Entries
    /\ pc = CASE entry = "run" -> "gis_login"
              [] entry = "create_scratch_layer" -> "add_geojson"
              [] entry = "create_layer" -> "clone_items"
    /\ outcome = "running"
    /\ exc = ""
    /\ retval = "unset"
    /\ headers = ""
    /\ lists_json = None
    /\ lists = <<>>
    /\ li = 1
    /\ alerts = <<>>
    /\ alert_ids = {}
    /\ geojson \in IF entry = "run" THEN {NoGeojson} ELSE ArgGeojsons
    /\ lyr = "unbound"
    /\ result = "unbound"
    /\ item = "unbound"
    /\ calls = <<>>
    /\ account = {}
    /\ logs = <<>>
    /\ fetched = <<>>
    /\ fcall = [fn |-> "none"]
    /\ fret = [st |-> "none"]

\* an exception leaves the entry function
Propagate(e) ==
    /\ outcome' = "raised"
    /\ exc' = e
    /\ pc' = "done"

Info(msg) == [level |-> "info", msg |-> msg]
Error(msg) == [level |-> "error", msg |-> msg]

-----------------------------------------------------------------------------
(* run, lines 269-299 and 321 *)

\* gis = GIS(username=..., password=...)
GisLogin ==
    /\ entry = "run" /\ pc = "gis_login"
    /\ logs' = Append(logs, Info("Authenticating to GIS and Dataminr"))
    /\ \E ok \in BOOLEAN :
         /\ calls' = Append(calls, [op |-> "GIS", ok |-> ok])
         /\ IF ok
            THEN pc' = "get_auth_header" /\ UNCHANGED <<outcome, exc>>
            ELSE Propagate("Exception")
    /\ UNCHANGED <<entry, retval, headers, lists_json, lists,
                   li, alerts, alert_ids,
                   geojson, lyr, result, item, account, fetched, fcall, fret>>

\* headers = get_auth_header(client_id, client_secret)
GetAuthHeader ==
    /\ entry = "run" /\ pc = "get_auth_header"
    /\ \/ \E j \in TokenBodies :
            LET r == get_auth_header(j) IN
            /\ calls' = Append(calls, [op |-> "POST token", ok |-> TRUE,
                                       raised |-> Raised(r)])
            /\ IF r.st = "return"
               THEN /\ headers' = r.v
                    /\ logs' = Append(logs, Info("Getting Dataminr data"))
                    /\ pc' = "get_lists"
                    /\ UNCHANGED <<outcome, exc>>
               ELSE /\ Propagate(r.exc)
                    /\ UNCHANGED <<headers, logs>>
       \/ \E e \in HttpErrors :
            /\ calls' = Append(calls, [op |-> "POST token", ok |-> FALSE,
                                       raised |-> e])
            /\ Propagate(e)
            /\ UNCHANGED <<headers, logs>>
    /\ UNCHANGED <<entry, retval, lists_json, lists, li, alerts, alert_ids,
                   geojson, lyr, result, item, account, fetched, fcall, fret>>

\* lists = get_lists(headers); alerts = []; alert_ids = set()
GetLists ==
    /\ entry = "run" /\ pc = "get_lists"
    /\ \/ \E j \in ListBodies :
            LET r == get_lists(j) IN
            /\ calls' = Append(calls, [op |-> "GET get_lists", ok |-> TRUE,
                                       raised |-> Raised(r)])
            /\ IF r.st = "return"
               THEN /\ lists' = r.v
                    /\ lists_json' = j
                    /\ pc' = "for_lists"
                    /\ UNCHANGED <<outcome, exc>>
               ELSE /\ Propagate(r.exc)
                    /\ UNCHANGED <<lists, lists_json>>
       \/ \E e \in HttpErrors :
            /\ calls' = Append(calls, [op |-> "GET get_lists", ok |-> FALSE,
                                       raised |-> e])
            /\ Propagate(e)
            /\ UNCHANGED <<lists, lists_json>>
    /\ li' = 1 /\ alerts' = <<>> /\ alert_ids' = {}
    /\ UNCHANGED <<entry, retval, headers, geojson, lyr, result, item,
                   account, logs, fetched, fcall, fret>>

\* the request get_alerts sends for list l, with the exception the call
\* raised ("" when it returned)
alert_request(l, ok, raised) ==
    [op |-> "GET get_alert", lists |-> py_str(l.list_id), alertversion |-> 14,
     pagesize |-> Pagesize, ok |-> ok, raised |-> raised]

\* mutant of fetch_failed: the failed list is asked for again
fetch_failed_retry(e) ==
    UNCHANGED <<pc, outcome, exc, alerts, alert_ids, li, fetched>>

\* mutant of fetch_failed: the failure is swallowed, the loop goes on
fetch_failed_skip(e) ==
    /\ li' = li + 1
    /\ UNCHANGED <<pc, outcome, exc, alerts, alert_ids, fetched>>

\* run has no handler around get_alerts or its loop over new_alerts: an
\* exception there leaves run
fetch_failed(e) ==
    /\ Propagate(e)
    /\ UNCHANGED <<alerts, alert_ids, li, fetched>>

\* one iteration of `for l in lists`: get_alerts, then the loop over new_alerts
GetAlerts ==
    /\ entry = "run" /\ pc = "for_lists" /\ li <= Len(lists)
    /\ LET l == lists[li] IN
       \/ \E body \in AlertBodies(MaxAlerts - Received) :
            LET new_alerts == get_alerts(body)
                d == Bind(new_alerts, LAMBDA rows :
                          dedup_loop(alerts, alert_ids, rows, l, 1))
            IN
            /\ calls' = Append(calls, alert_request(l, TRUE, Raised(d)))
            /\ IF d.st = "raise"
               THEN fetch_failed(d.exc)
               ELSE /\ alerts' = d.v.alerts
                    /\ alert_ids' = d.v.alert_ids
                    /\ li' = li + 1
                    /\ fetched' = Append(fetched,
                                         [list |-> l, raw |-> body.l,
                                          rows |-> new_alerts.v,
                                          n |-> Len(body.l)])
                    /\ UNCHANGED <<pc, outcome, exc>>
       \/ \E e \in HttpErrors :
            /\ calls' = Append(calls, alert_request(l, FALSE, e))
            /\ fetch_failed(e)
    /\ lists_json' = None
    /\ UNCHANGED <<entry, retval, headers, lists, geojson, lyr, result, item,
                   account, logs, fcall, fret>>

\* geojson = rows_to_geojson(alerts, 'lon', 'lat'), once the loop is over
BuildGeojson ==
    /\ entry = "run" /\ pc = "for_lists" /\ li > Len(lists)
    /\ geojson' = rows_to_geojson(alerts, "lon", "lat")
    /\ pc' = "get_item"
    /\ lists_json' = None
    /\ UNCHANGED <<entry, outcome, exc, retval, headers, lists, li, alerts,
                   alert_ids, lyr, result, item, calls, account, logs,
                   fetched, fcall, fret>>

\* item = Item(gis, '<id>'); lyr = item.layers[0]
GetItem ==
    /\ entry = "run" /\ pc = "get_item"
    /\ \E ok \in BOOLEAN :
         /\ calls' = Append(calls, [op |-> "Item", itemid |-> TargetItemId,
                                    ok |-> ok])
         /\ IF ok
            THEN lyr' = "target_layer" /\ pc' = "delete_before_days"
                 /\ UNCHANGED <<outcome, exc>>
            ELSE Propagate("Exception") /\ UNCHANGED lyr
    /\ UNCHANGED <<entry, retval, headers, lists_json, lists,
                   li, alerts, alert_ids,
                   geojson, result, item, account, logs, fetched, fcall, fret>>

\* mutant of DeleteBeforeDays: the deletion is not issued
DeleteBeforeDays_skipped ==
    /\ entry = "run" /\ pc = "delete_before_days"
    /\ logs' = Append(logs,
         [level |-> "info", msg |-> "Updating existing layer",
          itemid |-> TargetItemId, n |-> Len(alerts)])
    /\ pc' = "add_geojson"
    /\ UNCHANGED <<entry, outcome, exc, retval, headers, lists_json, lists,
                   li, alerts, alert_ids, geojson, lyr, result, item, calls,
                   account, fetched, fcall, fret>>

\* delete_before_days(lyr, 30, 'event_time'), then the 'Updating' log line
DeleteBeforeDays ==
    /\ entry = "run" /\ pc = "delete_before_days"
    /\ \E today \in Todays, ok \in BOOLEAN :
         /\ calls' = Append(calls,
              [op |-> "delete_features", layer |-> lyr,
               where |-> delete_where("event_time",
                                      days_back(today, RetentionDays)),
               ok |-> ok])
         /\ IF ok
            THEN /\ logs' = Append(logs,
                      [level |-> "info", msg |-> "Updating existing layer",
                       itemid |-> TargetItemId, n |-> Len(alerts)])
                 /\ pc' = "add_geojson"
                 /\ UNCHANGED <<outcome, exc>>
            ELSE Propagate("Exception") /\ UNCHANGED logs
    /\ UNCHANGED <<entry, retval, headers, lists_json, lists,
                   li, alerts, alert_ids,
                   geojson, lyr, result, item, account, fetched, fcall, fret>>

-----------------------------------------------------------------------------
(* append_to_layer, lines 227-251 (add_geojson, lines 168-184) *)

TmpItem == "tmp_item"

\* item = add_geojson(gis, geojson, ...); in append_to_layer also
\* `result = layer; test = item.id`
AddGeojson ==
    /\ pc = "add_geojson"
    /\ \E ok \in BOOLEAN :
         /\ calls' = Append(calls,
              [op |-> "content.add", type |-> "GeoJson",
               title |-> IF entry = "create_scratch_layer"
                         THEN "Dataminr Sample" ELSE "Dataminr update",
               n |-> Len(geojson.features), ok |-> ok])
         /\ IF ok
            THEN /\ item' = TmpItem
                 /\ account' = account \cup {TmpItem}
                 /\ IF entry = "create_scratch_layer"
                    THEN pc' = "publish" /\ UNCHANGED result
                    ELSE pc' = "layer_append" /\ result' = lyr
                 /\ UNCHANGED <<outcome, exc>>
            ELSE /\ Propagate("Exception")
                 /\ UNCHANGED <<item, account, result>>
    /\ UNCHANGED <<entry, retval, headers, lists_json, lists,
                   li, alerts, alert_ids,
                   geojson, lyr, logs, fetched, fcall, fret>>

\* mutant of LayerAppend: the item is deleted only after a successful append
LayerAppend_leak ==
    /\ pc = "layer_append"
    /\ \E ok \in BOOLEAN :
         /\ calls' = Append(calls,
              [op |-> "append", layer |-> lyr, item_id |-> item,
               upload_format |-> "geojson", ok |-> ok])
         /\ IF ok
            THEN /\ result' = "append_result" /\ UNCHANGED logs
                 /\ pc' = "finally_delete"
            ELSE /\ logs' = Append(logs,
                      Error("Error appending data to existing layer"))
                 /\ UNCHANGED result
                 /\ pc' = "append_return"
    /\ UNCHANGED <<entry, outcome, exc, retval, headers, lists_json, lists,
                   li, alerts, alert_ids, geojson, lyr, item, account,
                   fetched, fcall, fret>>

\* mutant of LayerAppend: no except clause, the exception leaves the function
LayerAppend_propagate ==
    /\ pc = "layer_append"
    /\ \E ok \in BOOLEAN :
         /\ calls' = Append(calls,
              [op |-> "append", layer |-> lyr, item_id |-> item,
               upload_format |-> "geojson", ok |-> ok])
         /\ IF ok
            THEN /\ result' = "append_result" /\ pc' = "finally_delete"
                 /\ UNCHANGED <<outcome, exc>>
            ELSE /\ Propagate("Exception") /\ UNCHANGED result
    /\ UNCHANGED <<entry, retval, headers, lists_json, lists, li, alerts,
                   alert_ids, geojson, lyr, item, account, logs, fetched,
                   fcall, fret>>

\* try: result = layer.append(item_id=..., upload_format="geojson")
\* except Exception: logging.error(...)
LayerAppend ==
    /\ pc = "layer_append"
    /\ \E ok \in BOOLEAN :
         /\ calls' = Append(calls,
              [op |-> "append", layer |-> lyr, item_id |-> item,
               upload_format |-> "geojson", ok |-> ok])
         /\ IF ok
            THEN result' = "append_result" /\ UNCHANGED logs
            ELSE /\ logs' = Append(logs,
                      Error("Error appending data to existing layer"))
                 /\ UNCHANGED result
    /\ pc' = "finally_delete"
    /\ UNCHANGED <<entry, outcome, exc, retval, headers, lists_json, lists,
                   li, alerts,
                   alert_ids, geojson, lyr, item, account, fetched, fcall,
                   fret>>

\* item.delete(): the call is issued; when it raises the item may or may
\* not be gone
item_delete(ok) ==
    /\ calls' = Append(calls, [op |-> "item.delete", item_id |-> item,
                               ok |-> ok])
    /\ IF ok THEN account' = account \ {item}
       ELSE account' \in {account, account \ {item}}

\* finally: item.delete()
FinallyDelete ==
    /\ pc = "finally_delete"
    /\ \E ok \in BOOLEAN :
         /\ item_delete(ok)
         /\ IF ok THEN pc' = "append_return" /\ UNCHANGED <<outcome, exc>>
            ELSE Propagate("Exception")
    /\ UNCHANGED <<entry, retval, headers, lists_json, lists,
                   li, alerts, alert_ids,
                   geojson, lyr, result, item, logs, fetched, fcall, fret>>

\* return result; in run the call is followed by the closing log line
AppendReturn ==
    /\ pc = "append_return"
    /\ IF entry = "run"
       THEN /\ logs' = Append(logs, Info("Seemingly, a success"))
            /\ retval' = "None"
       ELSE /\ retval' = result
            /\ UNCHANGED logs
    /\ outcome' = "returned"
    /\ pc' = "done"
    /\ UNCHANGED <<entry, exc, headers, lists_json, lists,
                   li, alerts, alert_ids, geojson,
                   lyr, result, item, calls, account, fetched, fcall, fret>>

-----------------------------------------------------------------------------
(* create_scratch_layer, lines 186-212 *)

\* try: lyr_item = item.publish()
Publish ==
    /\ entry = "create_scratch_layer" /\ pc = "publish"
    /\ \E ok \in BOOLEAN :
         /\ calls' = Append(calls, [op |-> "publish", item_id |-> item,
                                    ok |-> ok])
         /\ pc' = IF ok THEN "published_delete" ELSE "except_delete"
    /\ UNCHANGED <<entry, outcome, exc, retval, headers, lists_json, lists,
                   li, alerts,
                   alert_ids, geojson, lyr, result, item, account, logs,
                   fetched, fcall, fret>>

\* except Exception: item.delete(); logging.error(...); return
ExceptDelete ==
    /\ entry = "create_scratch_layer" /\ pc = "except_delete"
    /\ \E ok \in BOOLEAN :
         /\ item_delete(ok)
         /\ IF ok
            THEN /\ logs' = Append(logs, Error("Error creating a new layer"))
                 /\ retval' = "None"
                 /\ outcome' = "returned"
                 /\ pc' = "done"
                 /\ UNCHANGED exc
            ELSE /\ Propagate("Exception")
                 /\ UNCHANGED <<logs, retval>>
    /\ UNCHANGED <<entry, headers, lists_json, lists,
                   li, alerts, alert_ids, geojson,
                   lyr, result, item, fetched, fcall, fret>>

\* item.delete() after a successful publish
PublishedDelete ==
    /\ entry = "create_scratch_layer" /\ pc = "published_delete"
    /\ \E ok \in BOOLEAN :
         /\ item_delete(ok)
         /\ IF ok THEN pc' = "add_index" /\ UNCHANGED <<outcome, exc>>
            ELSE Propagate("Exception")
    /\ UNCHANGED <<entry, retval, headers, lists_json, lists,
                   li, alerts, alert_ids,
                   geojson, lyr, result, item, logs, fetched, fcall, fret>>

\* lyr = lyr_item.layers[0]; lyr.manager.add_to_definition(...);
\* return lyr_item
AddIndex ==
    /\ entry = "create_scratch_layer" /\ pc = "add_index"
    /\ \E ok \in BOOLEAN :
         /\ calls' = Append(calls,
              [op |-> "add_to_definition", fields |-> "alert_id",
               isUnique |-> TRUE, ok |-> ok])
         /\ IF ok
            THEN /\ retval' = "lyr_item"
                 /\ outcome' = "returned"
                 /\ pc' = "done"
                 /\ UNCHANGED exc
            ELSE /\ Propagate("Exception")
                 /\ UNCHANGED retval
    /\ UNCHANGED <<entry, headers, lists_json, lists,
                   li, alerts, alert_ids, geojson,
                   lyr, result, item, account, logs, fetched, fcall, fret>>

-----------------------------------------------------------------------------
(* create_layer, lines 214-225 *)

\* how the try block of create_layer ends: clone_items raises, results is
\* empty, the cloned item has no layer, or lyr is bound
CloneOutcomes == {"raises", "no_results", "no_layers", "bound"}

\* try: results = clone_items(...); item = results[0]; lyr = item.layers[0]
\* except Exception: logging.error(...)
CloneItems ==
    /\ entry = "create_layer" /\ pc = "clone_items"
    /\ \E o \in CloneOutcomes :
         /\ calls' = Append(calls, [op |-> "clone_items", copy_data |-> FALSE,
                                    ok |-> o # "raises"])
         /\ IF o = "bound"
            THEN lyr' = "cloned_layer" /\ UNCHANGED logs
            ELSE /\ logs' = Append(logs,
                      Error("Error creating a new layer from template"))
                 /\ UNCHANGED lyr
    /\ pc' = "call_append"
    /\ UNCHANGED <<entry, outcome, exc, retval, headers, lists_json, lists,
                   li, alerts,
                   alert_ids, geojson, result, item, account, fetched, fcall,
                   fret>>

\* mutant of CallAppend: lyr is passed on whether or not it was bound
CallAppend_unchecked ==
    /\ entry = "create_layer" /\ pc = "call_append"
    /\ pc' = "add_geojson"
    /\ UNCHANGED <<entry, outcome, exc, retval, headers, lists_json, lists,
                   li, alerts, alert_ids, geojson, lyr, result, item, calls,
                   account, logs, fetched, fcall, fret>>

\* return append_to_layer(gis, lyr, geojson): reading an unbound lyr raises
CallAppend ==
    /\ entry = "create_layer" /\ pc = "call_append"
    /\ IF lyr = "unbound"
       THEN Propagate("UnboundLocalError")
       ELSE pc' = "add_geojson" /\ UNCHANGED <<outcome, exc>>
    /\ UNCHANGED <<entry, retval, headers, lists_json, lists,
                   li, alerts, alert_ids,
                   geojson, lyr, result, item, calls, account, logs, fetched,
                   fcall, fret>>

-----------------------------------------------------------------------------

Next ==
    \/ GisLogin
    \/ GetAuthHeader
    \/ GetLists
    \/ GetAlerts
    \/ BuildGeojson
    \/ GetItem
    \/ DeleteBeforeDays
    \/ AddGeojson
    \/ LayerAppend
    \/ FinallyDelete
    \/ AppendReturn
    \/ Publish
    \/ ExceptDelete
    \/ PublishedDelete
    \/ AddIndex
    \/ CloneItems
    \/ CallAppend

Spec == Init /\ [][Next]_vars

-----------------------------------------------------------------------------
(* The pure functions on their own: a call is drawn, then evaluated *)

\* longest key list handed to extract
MaxKeys == 2

ExtractObjs ==
    {Dict([a |-> Dict([b |-> Num(7), n |-> None]),
           c |-> List(<<Num(1), Str("xy")>>)]),
     Dict(EmptyDict),
     List(<<Dict([a |-> Str("x")])>>)}

ExtractKeys == {Str("a"), Str("b"), Str("c"), Str("n"), Num(0), Num(1), Num(-1)}

ExtractDefaults == {None, Num(0), List(<<>>)}

\* delimited key strings, each with the key list it denotes
DelimitedKeys ==
    {[dk |-> "a", keys |-> <<Str("a")>>],
     [dk |-> "a.b", keys |-> <<Str("a"), Str("b")>>],
     [dk |-> "a.x.b", keys |-> <<Str("a"), Str("x"), Str("b")>>],
     [dk |-> "c.0", keys |-> <<Str("c"), Str("0")>>],
     [dk |-> "n", keys |-> <<Str("n")>>],
     [dk |-> "a.n.b", keys |-> <<Str("a"), Str("n"), Str("b")>>]}

ExtractCalls ==
    {[fn |-> "extract", obj |-> o, keys |-> ks, required |-> r, default |-> d] :
        o \in ExtractObjs, ks \in SeqsUpTo(ExtractKeys, MaxKeys),
        r \in BOOLEAN, d \in ExtractDefaults}

DExtractCalls ==
    {[fn |-> "d_extract", obj |-> o, dk |-> k.dk, keys |-> k.keys,
      required |-> r, default |-> d] :
        o \in ExtractObjs, k \in DelimitedKeys, r \in BOOLEAN,
        d \in ExtractDefaults}

\* the program itself is not running in the pure-function specifications
Idle ==
    /\ entry = "none" /\ pc = "idle" /\ outcome = "running" /\ exc = ""
    /\ retval = "unset" /\ headers = "" /\ lists_json = None /\ lists = <<>>
    /\ li = 1 /\ alerts = <<>> /\ alert_ids = {} /\ geojson = NoGeojson
    /\ lyr = "unbound" /\ result = "unbound" /\ item = "unbound"
    /\ calls = <<>> /\ account = {} /\ logs = <<>> /\ fetched = <<>>

InitExtract ==
    /\ Idle
    /\ fcall \in ExtractCalls \cup DExtractCalls
    /\ fret = [st |-> "none"]

CallExtract ==
    /\ fcall.fn = "extract" /\ fret.st = "none"
    /\ fret' = extract(fcall.obj, fcall.keys, fcall.required, fcall.default)
    /\ UNCHANGED <<progvars, fcall>>

CallDExtract ==
    /\ fcall.fn = "d_extract" /\ fret.st = "none"
    /\ fret' = d_extract(fcall.obj, fcall.dk, fcall.required, fcall.default)
    /\ UNCHANGED <<progvars, fcall>>

NextExtract == CallExtract \/ CallDExtract

SpecExtract == InitExtract /\ [][NextExtract]_vars

\* a field of an alert that may be missing
Opt(has, k, v) == IF has THEN k :> v ELSE EmptyDict

EventLocations ==
    {EmptyDict,
     "eventLocation" :> Dict([name |-> Str("P")]),
     "eventLocation" :> Dict([name |-> Str("P"),
                              coordinates |-> List(<<Num(10), Num(20)>>)]),
     "eventLocation" :> Dict([coordinates |-> List(<<Num(10)>>)])}

Posts ==
    {EmptyDict,
     "post" :> Dict([text |-> Str("hello")]),
     "post" :> Dict([text |-> Str("hello"), translatedText |-> Str("hi"),
                     timestamp |-> Num(90061001)])}

EventTimes ==
    {EmptyDict, "eventTime" :> Num(0), "eventTime" :> Num(86400000),
     "eventTime" :> Num(-5)}

Sources ==
    {EmptyDict,
     "source" :> Dict([channels |-> List(<<>>)]),
     "source" :> Dict([channels |-> List(<<Str("x"), Str("y")>>)])}

\* alerts handed to alert_to_row on its own
RowAlerts ==
    {Dict(Opt(id, "alertId", Str("a1")) @@ loc @@ post @@ et @@ src @@
          Opt(cap, "caption", Str("cap")) @@
          Opt(at, "alertType", Dict([name |-> Str("Urgent"),
                                     color |-> Str("FF0000")])) @@
          Opt(pub, "publisherCategory", Dict([name |-> Str("News")])) @@
          Opt(pub, "relatedTermsQueryURL", Str("http://q")) @@
          Opt(pub, "expandAlertURL", Str("http://e")) @@
          Opt(terms, "relatedTerms", List(<<Dict([text |-> Str("t1")]),
                                            Dict([text |-> Str("t2")])>>)) @@
          Opt(cats, "categories", List(<<Dict([name |-> Str("c1")])>>))) :
        id \in BOOLEAN, loc \in EventLocations, post \in Posts,
        et \in EventTimes, src \in Sources, cap \in BOOLEAN, at \in BOOLEAN,
        pub \in BOOLEAN, terms \in BOOLEAN, cats \in BOOLEAN}

InitRow ==
    /\ Idle
    /\ fcall \in {[fn |-> "alert_to_row", obj |-> a] : a \in RowAlerts}
    /\ fret = [st |-> "none"]

CallAlertToRow ==
    /\ fcall.fn = "alert_to_row" /\ fret.st = "none"
    /\ fret' = alert_to_row(fcall.obj)
    /\ UNCHANGED <<progvars, fcall>>

NextRow == CallAlertToRow

SpecRow == InitRow /\ [][NextRow]_vars

-----------------------------------------------------------------------------
(* Properties.  Paths through a JSON value, stated without the functions   *)
(* under test.                                                             *)

\* o holds key / index k
PathHas(o, k) ==
    \/ o.K = "dict" /\ k.K = "str" /\ k.s \in DOMAIN o.d
    \/ o.K = "list" /\ k.K = "num" /\ -Len(o.l) <= k.n /\ k.n < Len(o.l)
    \/ o.K = "str" /\ k.K = "num" /\ -Len(o.s) <= k.n /\ k.n < Len(o.s)

\* k is a missing key of the object o, or an index out of o's range
PathMissing(o, k) ==
    \/ o.K = "dict" /\ ~PathHas(o, k)
    \/ o.K \in {"list", "str"} /\ k.K = "num" /\ ~PathHas(o, k)

PathGet(o, k) ==
    CASE o.K = "dict" -> o.d[k.s]
      [] o.K = "list" -> o.l[IF k.n >= 0 THEN k.n + 1 ELSE Len(o.l) + k.n + 1]
      [] o.K = "str" ->
           LET i == IF k.n >= 0 THEN k.n + 1 ELSE Len(o.s) + k.n + 1
           IN Str(SubSeq(o.s, i, i))

\* the first i keys all exist, and the value they lead to
RECURSIVE PathReach(_, _, _)
RECURSIVE PathAt(_, _, _)
PathAt(o, keys, i) ==
    IF i = 0 THEN o ELSE PathGet(PathAt(o, keys, i - 1), keys[i])

PathReach(o, keys, i) ==
    \/ i = 0
    \/ /\ PathReach(o, keys, i - 1)
       /\ PathHas(PathAt(o, keys, i - 1), keys[i])

\* C9: extract (and d_extract, on the keys its dotted string denotes) returns
\* the nested value when every key / index exists; at the first missing key
\* or out-of-range index it returns default whatever the later keys are,
\* except that it raises KeyError when required is set and default is None;
\* required with a default other than None returns the default.
C9_Extract ==
    fret.st # "none" /\ fcall.fn \in {"extract", "d_extract"} =>
      LET o == fcall.obj
          keys == fcall.keys
          n == Len(keys)
      IN /\ PathReach(o, keys, n) => fret = Return(PathAt(o, keys, n))
         /\ \A m \in 0..(n - 1) :
              PathReach(o, keys, m) /\ PathMissing(PathAt(o, keys, m), keys[m + 1])
              => fret = IF fcall.required /\ fcall.default = None
                        THEN Raise("KeyError")
                        ELSE Return(fcall.default)

\* C9 witness: a required lookup with a default other than None stopped at a
\* missing first key although a later key was still to come, and returned
\* the default
C9_Witness ==
    /\ fcall.fn = "extract" /\ fret.st = "return"
    /\ fcall.required /\ fcall.default = Num(0)
    /\ Len(fcall.keys) = 2
    /\ PathMissing(fcall.obj, fcall.keys[1])
    /\ fret.v = Num(0)

\* the thirteen keys of the dict literal of alert_to_row with their sources
C6_Simple ==
    {[key |-> "alert_id", path |-> <<Str("alertId")>>],
     [key |-> "place", path |-> <<Str("eventLocation"), Str("name")>>],
     [key |-> "alert_type", path |-> <<Str("alertType"), Str("name")>>],
     [key |-> "alert_type_color", path |-> <<Str("alertType"), Str("color")>>],
     [key |-> "caption", path |-> <<Str("caption")>>],
     [key |-> "publisher_category",
      path |-> <<Str("publisherCategory"), Str("name")>>],
     [key |-> "publisher_category_color",
      path |-> <<Str("publisherCategory"), Str("color")>>],
     [key |-> "related_terms_query_url",
      path |-> <<Str("relatedTermsQueryURL")>>],
     [key |-> "expand_alert_url", path |-> <<Str("expandAlertURL")>>],
     [key |-> "post_text", path |-> <<Str("post"), Str("text")>>],
     [key |-> "post_text_transl", path |-> <<Str("post"), Str("translatedText")>>],
     [key |-> "lon",
      path |-> <<Str("eventLocation"), Str("coordinates"), Num(0)>>],
     [key |-> "lat",
      path |-> <<Str("eventLocation"), Str("coordinates"), Num(1)>>]}

\* the five keys alert_to_row sets after the literal, with their sources
C6_Derived ==
    {[key |-> "event_time", path |-> <<Str("eventTime")>>],
     [key |-> "post_time", path |-> <<Str("post"), Str("timestamp")>>],
     [key |-> "source", path |-> <<Str("source"), Str("channels")>>],
     [key |-> "related_terms", path |-> <<Str("relatedTerms")>>],
     [key |-> "categories", path |-> <<Str("categories")>>]}

C6_Present(o, f) == PathReach(o, f.path, Len(f.path))
C6_Source(o, f) == PathAt(o, f.path, Len(f.path))

\* what the derived keys hold for the source values of RowAlerts
C6_Converted(v) ==
    CASE v = Num(86400000) -> Str("01/02/1970 00:00:00")
      [] v = Num(90061001) -> Str("01/02/1970 01:01:01")
      [] v = List(<<Str("x"), Str("y")>>) -> Str("x,y")
      [] v = List(<<Dict([text |-> Str("t1")]), Dict([text |-> Str("t2")])>>)
           -> Str("t1,t2")
      [] v = List(<<Dict([name |-> Str("c1")])>>) -> Str("c1")

\* the source values for which a derived key is set
C6_Sets(v) ==
    \/ v.K = "num" /\ v.n > 0
    \/ v.K = "list" /\ Len(v.l) > 0

\* C6 as stated: for an alert with an alertId, an absent optional source
\* field produces no key in the row and a present one is copied to its key.
C6_CopyOrSkip ==
    fcall.fn = "alert_to_row" /\ fret.st = "return" =>
      \A f \in C6_Simple \cup C6_Derived :
        IF C6_Present(fcall.obj, f)
        THEN /\ f.key \in DOMAIN fret.v
             /\ fret.v[f.key] = C6_Source(fcall.obj, f)
        ELSE f.key \notin DOMAIN fret.v

\* C6 amended: for an alert with an alertId, the row always holds the
\* thirteen keys of the literal, each a copy of its source field or None
\* when that field is absent; only event_time, post_time, source,
\* related_terms and categories are left out, when their source is absent,
\* empty or not positive, and otherwise hold the formatted date or the
\* comma-joined string, not a copy.  Without an alertId: KeyError.
C6_NoneOrSkip ==
    fcall.fn = "alert_to_row" /\ fret.st # "none" =>
      IF ~C6_Present(fcall.obj, [path |-> <<Str("alertId")>>])
      THEN fret = Raise("KeyError")
      ELSE /\ fret.st = "return"
           /\ DOMAIN fret.v \subseteq
                {f.key : f \in C6_Simple \cup C6_Derived}
           /\ \A f \in C6_Simple :
                /\ f.key \in DOMAIN fret.v
                /\ fret.v[f.key] = IF C6_Present(fcall.obj, f)
                                   THEN C6_Source(fcall.obj, f) ELSE None
           /\ \A f \in C6_Derived :
                IF C6_Present(fcall.obj, f) /\ C6_Sets(C6_Source(fcall.obj, f))
                THEN /\ f.key \in DOMAIN fret.v
                     /\ fret.v[f.key] = C6_Converted(C6_Source(fcall.obj, f))
                ELSE f.key \notin DOMAIN fret.v

\* C6 witness: an alert with an alertId but no place and no coordinates,
\* with an event time and channels, has been flattened
C6_Witness ==
    /\ fcall.fn = "alert_to_row" /\ fret.st = "return"
    /\ "eventLocation" \notin DOMAIN fcall.obj.d
    /\ "eventTime" \in DOMAIN fcall.obj.d /\ fcall.obj.d["eventTime"].n > 0
    /\ "source" \in DOMAIN fcall.obj.d
    /\ "event_time" \in DOMAIN fret.v
    /\ fret.v["place"] = None

-----------------------------------------------------------------------------
(* Properties of the program *)

FetchOps == {"POST token", "GET get_lists", "GET get_alert"}
LayerOps == {"delete_features", "content.add", "append", "item.delete"}
LayerOrder == <<"delete_features", "content.add", "append", "item.delete">>

CallsOf(ops) == SelectSeq(calls, LAMBDA c : c.op \in ops)
Count(op) == Len(CallsOf({op}))
Failed(op) == \E i \in 1..Len(calls) : calls[i].op = op /\ ~calls[i].ok
Succeeded(op) == \E i \in 1..Len(calls) : calls[i].op = op /\ calls[i].ok
Logged(rec) == \E i \in 1..Len(logs) : logs[i] = rec
LayerOpsIssued == [i \in 1..Len(CallsOf(LayerOps)) |-> CallsOf(LayerOps)[i].op]

\* positions <<j, k>> of the alerts received: k-th alert of the j-th list
Received_at ==
    {<<j, k>> : j \in 1..Len(fetched), k \in 1..MaxAlerts + 1} \cap
    {p \in (1..Len(fetched)) \X (1..MaxAlerts + 1) :
        p[2] <= Len(fetched[p[1]].raw)}

ReceivedId(p) == fetched[p[1]].raw[p[2]].d["alertId"]

Earlier(p, q) == p[1] < q[1] \/ (p[1] = q[1] /\ p[2] < q[2])

\* the first position at which id was received
FirstOf(id) ==
    CHOOSE p \in Received_at :
        /\ ReceivedId(p) = id
        /\ \A q \in Received_at : ReceivedId(q) = id => ~Earlier(q, p)

ListFields == {"list_id", "list_name", "list_color"}

\* row is the alert row r with the fields of list l merged in
MergedFrom(row, r, l) ==
    /\ DOMAIN row = DOMAIN r \cup ListFields
    /\ \A f \in DOMAIN r : row[f] = r[f]
    /\ \A f \in ListFields : row[f] = l[f]

\* the lists of one group of the get_lists answer, none if the key is absent
GroupOf(j, g) ==
    IF "watchlists" \in DOMAIN j.d /\ g \in DOMAIN j.d["watchlists"].d
    THEN j.d["watchlists"].d[g].l ELSE <<>>

\* C1: the accumulated rows never hold two rows with one alert_id; every
\* alert id any list returned is in exactly one row, and that row is the one
\* of the first list (lists taken TOPIC, then COMPANY, then CUSTOM) that
\* returned it, with that list's list_id, list_name and list_color.
C1_DedupFirstWins ==
    entry = "run" =>
      /\ \A i1, i2 \in 1..Len(alerts) :
           i1 # i2 => alerts[i1]["alert_id"] # alerts[i2]["alert_id"]
      /\ \A j \in 1..Len(fetched) : fetched[j].list = lists[j]
      /\ \A p \in Received_at :
           /\ Cardinality({i \in 1..Len(alerts) :
                             alerts[i]["alert_id"] = ReceivedId(p)}) = 1
           /\ FirstOf(ReceivedId(p)) = p =>
                \E i \in 1..Len(alerts) :
                   MergedFrom(alerts[i], fetched[p[1]].rows[p[2]],
                              fetched[p[1]].list)
      /\ \A i \in 1..Len(alerts) :
           \E p \in Received_at : ReceivedId(p) = alerts[i]["alert_id"]
      /\ lists_json # None =>
           LET all == GroupOf(lists_json, "TOPIC") \o
                      GroupOf(lists_json, "COMPANY") \o
                      GroupOf(lists_json, "CUSTOM")
           IN /\ Len(lists) = Len(all)
              /\ \A i \in 1..Len(all) : lists[i].list_id = all[i].d["id"]

\* C1 witness: two different lists returned the same alert id with
\* different content, and both were merged
C1_Witness ==
    /\ entry = "run" /\ Len(fetched) = 2
    /\ fetched[1].list # fetched[2].list
    /\ \E k1 \in 1..Len(fetched[1].raw), k2 \in 1..Len(fetched[2].raw) :
         /\ ReceivedId(<<1, k1>>) = ReceivedId(<<2, k2>>)
         /\ fetched[1].rows[k1] # fetched[2].rows[k2]

\* C2 as stated: a run that reaches the GIS update phase issues, each exactly
\* once and in this order, delete_features, the item creation, append, the
\* item deletion.
C2_ExactlyOnceInOrder ==
    entry = "run" /\ pc = "done" /\ lyr # "unbound" =>
      LayerOpsIssued = LayerOrder

\* C2 amended: a run that reaches the GIS update phase issues delete_features
\* (30 days back on event_time) exactly once, after every Dataminr request;
\* item creation, append and item deletion follow in this order, each at
\* most once, and each exactly once when delete_features and the item
\* creation returned.
C2_InOrderAtMostOnce ==
    entry = "run" =>
      /\ LayerOpsIssued = SubSeq(LayerOrder, 1, Len(LayerOpsIssued))
      /\ \A i, j \in 1..Len(calls) :
           calls[i].op \in FetchOps /\ calls[j].op \in LayerOps => i < j
      /\ \A i \in 1..Len(calls) :
           calls[i].op = "delete_features" =>
             calls[i].where = "event_time < '01/16/1970 01:01:01'"
      /\ pc = "done" /\ lyr # "unbound" => Count("delete_features") = 1
      /\ pc = "done" /\ Succeeded("delete_features") /\ Succeeded("content.add")
           => LayerOpsIssued = LayerOrder

\* C2 witness: a run ended with all four calls issued, the append having
\* returned
C2_Witness ==
    /\ entry = "run" /\ pc = "done" /\ outcome = "returned"
    /\ LayerOpsIssued = LayerOrder
    /\ Succeeded("append")
    /\ Len(alerts) > 0

C4_ExactlyOnce ==
    entry = "run" /\ pc = "done" =>
      /\ Count("POST token") = 1
      /\ Count("GET get_lists") = 1
      /\ Count("GET get_alert") = Len(lists)

\* C4 amended: one run issues at most one token request, at most one list
\* fetch and at most one alert fetch per list returned, with page size 100
\* and in list order; a request that failed is the last Dataminr request of
\* the run (no retry, no further page); a run whose fetch phase completes
\* issued exactly one of each and exactly one alert fetch per list.
C4_AtMostOnce ==
    entry = "run" =>
      LET ar == CallsOf({"GET get_alert"}) IN
      /\ Count("POST token") <= 1
      /\ Count("GET get_lists") <= 1
      /\ Len(ar) <= Len(lists)
      /\ \A i \in 1..Len(ar) :
           /\ ar[i].lists = ToString(lists[i].list_id.n)
           /\ ar[i].pagesize = 100
      /\ \A i, j \in 1..Len(calls) :
           /\ calls[i].op \in FetchOps /\ calls[j].op \in FetchOps
           /\ ~calls[i].ok \/ calls[i].raised # ""
           => j <= i
      /\ geojson.type = "FeatureCollection" =>
           /\ Count("POST token") = 1
           /\ Count("GET get_lists") = 1
           /\ Len(ar) = Len(lists)

\* C4 witness: the fetch phase completed over two lists
C4_Witness ==
    /\ entry = "run" /\ geojson.type = "FeatureCollection"
    /\ Len(lists) = 2 /\ Count("GET get_alert") = 2
    /\ lists[1] # lists[2]

AppendError == Error("Error appending data to existing layer")
PublishError == Error("Error creating a new layer")
Success == Info("Seemingly, a success")

\* C5 as stated: when append raises, append_to_layer logs the error and
\* returns the layer it was given, and run goes on to its closing log line;
\* when publish raises, create_scratch_layer logs the error and returns None
\* without adding the index.
C5_Swallowed ==
    pc = "done" =>
      /\ Failed("append") =>
           /\ Logged(AppendError)
           /\ outcome = "returned"
           /\ result = lyr
           /\ entry = "run" => logs[Len(logs)] = Success
      /\ Failed("publish") =>
           /\ Logged(PublishError)
           /\ outcome = "returned" /\ retval = "None"
           /\ Count("add_to_definition") = 0

\* C5 amended: the exception of append or publish itself never leaves the
\* function.  When append raises the error is logged and result stays the
\* layer given; if the item deletion that follows returns, append_to_layer
\* returns that layer and run goes on to its closing log line.  When publish
\* raises the index is never added; if the item deletion returns, the error
\* is logged and None is returned.  If the item deletion raises, that
\* exception leaves the function instead.
C5_SwallowedUnlessDeleteRaises ==
    /\ Failed("append") =>
         /\ Logged(AppendError)
         /\ result = lyr
         /\ pc = "done" =>
              IF Succeeded("item.delete")
              THEN /\ outcome = "returned"
                   /\ entry = "run" =>
                        logs[Len(logs)] = Success /\ retval = "None"
                   /\ entry = "create_layer" => retval = lyr
              ELSE /\ outcome = "raised"
                   /\ calls[Len(calls)].op = "item.delete"
    /\ Failed("publish") =>
         /\ Count("add_to_definition") = 0
         /\ pc = "done" =>
              IF Succeeded("item.delete")
              THEN /\ Logged(PublishError)
                   /\ outcome = "returned" /\ retval = "None"
              ELSE /\ outcome = "raised"
                   /\ calls[Len(calls)].op = "item.delete"
                   /\ ~Logged(PublishError)

\* C5 witness: append raised in run, the item deletion returned, run is over
C5_Witness ==
    /\ entry = "run" /\ pc = "done"
    /\ Failed("append") /\ Succeeded("item.delete")
    /\ outcome = "returned"

\* C7: when cloning the template raises in create_layer, the error is
\* logged, lyr is never bound, and create_layer ends with an exception
\* before append_to_layer is entered: no item is uploaded, nothing appended.
C7_UnboundLyr ==
    entry = "create_layer" /\ Failed("clone_items") =>
      /\ Logged(Error("Error creating a new layer from template"))
      /\ lyr = "unbound" /\ item = "unbound" /\ account = {}
      /\ Count("content.add") = 0 /\ Count("append") = 0
      /\ pc \in {"call_append", "done"}
      /\ pc = "done" => outcome = "raised" /\ exc = "UnboundLocalError"

\* C7 witness: clone_items raised and create_layer is over
C7_Witness ==
    /\ entry = "create_layer" /\ Failed("clone_items") /\ pc = "done"

\* C8: when a Dataminr call of run raises (token, list fetch, a list's
\* alert fetch, a list without id, an alert without alertId), that exception
\* leaves run and nothing was asked of the GIS layer: no delete_features, no
\* item creation, no append, even if earlier lists were fetched.
C8_FetchFailureLeavesLayer ==
    entry = "run" =>
      \A i \in 1..Len(calls) :
        calls[i].op \in FetchOps /\ calls[i].raised # "" =>
          /\ pc = "done" /\ outcome = "raised" /\ exc = calls[i].raised
          /\ i = Len(calls)
          /\ \A j \in 1..Len(calls) :
               calls[j].op \notin LayerOps \cup {"Item"}
          /\ item = "unbound" /\ account = {} /\ lyr = "unbound"
          /\ geojson = NoGeojson

\* C8 witness: a first list was fetched and merged, then the second list's
\* answer held an alert without alertId
C8_Witness ==
    /\ entry = "run" /\ Len(fetched) = 1 /\ Len(alerts) = 1
    /\ Len(calls) > 0
    /\ calls[Len(calls)].op = "GET get_alert"
    /\ calls[Len(calls)].ok /\ calls[Len(calls)].raised = "KeyError"
    /\ outcome = "raised"

\* the alert as received, of which row i of alerts was made
SourceAlert(i) ==
    LET p == FirstOf(alerts[i]["alert_id"]) IN fetched[p[1]].raw[p[2]]

HasCoordinates(a) ==
    /\ "eventLocation" \in DOMAIN a.d
    /\ "coordinates" \in DOMAIN a.d["eventLocation"].d

\* C10: the feature collection run builds has one feature per deduplicated
\* row, in the same order, with the row as properties; its Point coordinates
\* are [row.lat, row.lon], that is coordinates[1], coordinates[0] of the
\* source alert, and [None, None] for an alert without coordinates.
C10_Features ==
    entry = "run" /\ geojson.type = "FeatureCollection" =>
      /\ Len(geojson.features) = Len(alerts)
      /\ \A i \in 1..Len(alerts) :
           LET f == geojson.features[i]
               a == SourceAlert(i)
           IN /\ f.type = "Feature" /\ f.geometry.type = "Point"
              /\ f.properties = alerts[i]
              /\ f.geometry.coordinates = <<alerts[i]["lat"], alerts[i]["lon"]>>
              /\ f.geometry.coordinates =
                   IF HasCoordinates(a)
                   THEN <<a.d["eventLocation"].d["coordinates"].l[2],
                          a.d["eventLocation"].d["coordinates"].l[1]>>
                   ELSE <<None, None>>

\* C10 witness: a collection with a located alert and one without coordinates
C10_Witness ==
    /\ entry = "run" /\ geojson.type = "FeatureCollection"
    /\ Len(geojson.features) = 2
    /\ \E i, j \in 1..2 :
         /\ geojson.features[i].geometry.coordinates = <<Num(20), Num(10)>>
         /\ geojson.features[j].geometry.coordinates = <<None, None>>

=============================================================================
